---- MODULE Spec2Model ----
(***************************************************************************)
(* Ingestion poller of worker/parsing.py: poll_accounts,                   *)
(* _fetch_channel_messages and _store_message, over the tables of          *)
(* web/models (messages, media_assets, account_channel_state), a remote    *)
(* messaging source that publishes messages and signals rate limiting,     *)
(* and a process that can be killed at any suspension point (Spec).        *)
(* Beside it: the credential vault of web/crypto.py; the channel routes    *)
(* of web/routes/channels.py with the poller's runs (SpecWeb); the         *)
(* periodic jobs of worker/topics.py, schedule_jobs (SpecSched); and       *)
(* cluster_topics and compute_ranking over the stored messages (SpecPipe,  *)
(* SpecRank).  Each specification moves the variables of its component     *)
(* and leaves the others as they start.                                    *)
(***************************************************************************)
EXTENDS Integers, Sequences, FiniteSets, Bags, TLC

\* ---------------------------------------------------------------- bounds
\* Highest source id the remote source publishes in a channel.
MaxMsgId == 2
\* Highest number of rate-limit signals the remote source raises during one
\* _fetch_channel_messages call (the code itself has no bound).
MaxFlood == 2
\* Highest suggested wait (FloodWaitError.seconds) carried by a signal.
MaxWait == 2

\* ------------------------------------------------------------ store rows
\* last_msg_id is Mapped[int | None]: the column holding no value.  Source
\* ids are positive, so no id is mistaken for it.
NULL == -1

\* No account, no channel: the loop variables outside their loops.
None == "None"

\* tg_accounts rows.  a3 is active and has no stored session; a4 is inactive.
Accounts == {"a1", "a2", "a3", "a4"}

\* channels rows.
Channels == {"c1", "c2"}

\* The channels whose messages can carry media; c2 is a text channel.
carries_media(ch) == ch = "c1"

\* TGAccount.is_active
is_active(a) == a # "a4"

\* TGAccount.session_cipher is set (truthy)
session_cipher(a) == a \in {"a1", "a2", "a4"}

\* TGAccount.states: the channels of the account's account_channel_state rows.
\* c1 is read by two accounts.
states(a) ==
    CASE a = "a1" -> {"c1", "c2"}
      [] a = "a2" -> {"c1"}
      [] a = "a3" -> {"c2"}
      [] OTHER -> {}

\* The account_channel_state rows: primary key (account_id, channel_id).
Pairs == {p \in Accounts \X Channels : p[2] \in states(p[1])}

\* The pairs the poller ever reads: those of active accounts with a session.
Polled == {p \in Pairs : is_active(p[1]) /\ session_cipher(p[1])}

\* last_msg_id of each account_channel_state row before the first run: never
\* set, set to 0, and set to 1 by a subscription made after the first message.
InitCursor(p) ==
    CASE p = <<"a1", "c1">> -> NULL
      [] p = <<"a2", "c1">> -> 0
      [] p = <<"a1", "c2">> -> 1
      [] OTHER -> NULL

\* `state.last_msg_id or 0`
Val(c) == IF c = NULL THEN 0 ELSE c

Max(S) == IF S = {} THEN 0 ELSE CHOOSE x \in S : \A y \in S : y <= x

RECURSIVE Pow2(_)
\* 2**k
Pow2(k) == IF k = 0 THEN 1 ELSE 2 * Pow2(k - 1)

\* ------------------------------------------------------- credential vault
\* web/crypto.py.  A str is the sequence of its character codes and bytes the
\* sequence of its byte values; the session strings are ASCII, so encode()
\* and decode() keep the codes.  Byte values are 0..ByteMod-1.
ByteMod == 3
\* Length of the nonce, os.urandom(12) in the code.
NonceLen == 1

\* _KEY_V1, the key of version 1.
KeyV1 == 2

RECURSIVE Sum(_)
Sum(q) == IF q = <<>> THEN 0 ELSE q[1] + Sum(Tail(q))

RECURSIVE Num(_)
\* The number whose digits, to the base ByteMod, are the bytes of q.
Num(q) == IF q = <<>> THEN 1 ELSE q[1] + ByteMod * Num(Tail(q))

\* A tag that would depend on the key alone.
Tag_of_key(key, nonce, body) == key

\* The authentication tag of AES-GCM over key, nonce and encrypted bytes: a
\* value that differs whenever one of the three differs.
Tag(key, nonce, body) == key + ByteMod * Num(nonce \o body)

\* The keystream byte of position i.
KeyStream(key, nonce, i) == (key + Sum(nonce) + i) % ByteMod

\* AESGCM(key).encrypt(nonce, data, None): the encrypted bytes, then the tag.
aes_encrypt(key, nonce, data) ==
    LET body == [i \in 1..Len(data) |->
                    (data[i] + KeyStream(key, nonce, i)) % ByteMod]
    IN  Append(body, Tag(key, nonce, body))

\* A decryption that would verify the tag and return the encrypted bytes.
aes_decrypt_masked(key, nonce, cipher) ==
    IF Len(cipher) = 0 \/ cipher[Len(cipher)]
            # Tag(key, nonce, SubSeq(cipher, 1, Len(cipher) - 1))
    THEN [ok |-> FALSE, error |-> "InvalidTag", value |-> <<>>]
    ELSE [ok |-> TRUE, error |-> "none",
          value |-> SubSeq(cipher, 1, Len(cipher) - 1)]

\* AESGCM(key).decrypt(nonce, cipher, None): the data, or InvalidTag when the
\* tag is missing or does not verify.
aes_decrypt(key, nonce, cipher) ==
    IF Len(cipher) = 0
    THEN [ok |-> FALSE, error |-> "InvalidTag", value |-> <<>>]
    ELSE LET body == SubSeq(cipher, 1, Len(cipher) - 1)
             tag == cipher[Len(cipher)]
         IN  IF tag # Tag(key, nonce, body)
             THEN [ok |-> FALSE, error |-> "InvalidTag", value |-> <<>>]
             ELSE [ok |-> TRUE, error |-> "none",
                   value |-> [i \in 1..Len(body) |->
                        (body[i] + ByteMod - KeyStream(key, nonce, i)) % ByteMod]]

\* base64.b64encode(data).decode(): the text of the bytes, in an alphabet of
\* its own (the codes below 0).
b64encode(data) == [i \in 1..Len(data) |-> 0 - data[i] - 1]

\* base64.b64decode(text)
b64decode(text) == [i \in 1..Len(text) |-> 0 - text[i] - 1]

\* encrypt_string_session(session), with the nonce os.urandom drew.
encrypt_string_session(s, nonce) ==
    <<b64encode(nonce \o aes_encrypt(KeyV1, nonce, s)), 1>>

\* decrypt_string_session(cipher_b64, kver)
decrypt_string_session(cipher_b64, kv) ==
    IF kv # 1
    THEN [ok |-> FALSE, error |-> "ValueError", value |-> <<>>]
    ELSE LET data == b64decode(cipher_b64)
             n == IF Len(data) < NonceLen THEN Len(data) ELSE NonceLen
         IN  aes_decrypt(KeyV1, SubSeq(data, 1, n),
                         SubSeq(data, n + 1, Len(data)))

\* The StringSession of each account, as the login obtained it.
secret(a) ==
    CASE a = "a1" -> <<1, 2>>
      [] a = "a2" -> <<0, 1>>
      [] a = "a4" -> <<2>>
      [] OTHER -> <<>>

\* TGAccount.kver.  a2 was stored under a key version that is not provisioned.
kver(a) ==
    CASE a = "a1" -> 1
      [] a = "a2" -> 2
      [] a = "a4" -> 1
      [] OTHER -> NULL

\* TGAccount.session_cipher: what encrypt_string_session returned at login.
stored_cipher(a) ==
    IF session_cipher(a)
    THEN encrypt_string_session(secret(a), [i \in 1..NonceLen |-> 1])[1]
    ELSE <<>>

VARIABLES
    \* the store, durable
    messages,       \* bag of committed messages rows <<channel_id, msg_id>>
    media_assets,   \* set of committed media_assets rows, by their message
    last_msg_id,    \* AccountChannelState.last_msg_id of each pair
    \* the remote source
    upstream,       \* source ids published in each channel
    media,          \* the ids of each channel whose message carries media
    \* the poller process
    pc,             \* position in poll_accounts
    todo,           \* accounts the `for account in accounts` loop has left
    account,        \* the loop's account
    stodo,          \* states the `for state in account.states` loop has left
    channel,        \* state.channel of the running fetch
    last_id,        \* local of _fetch_channel_messages
    attempt,        \* local of _fetch_channel_messages
    wait_time,      \* local of _fetch_channel_messages: the last sleep
    msg,            \* msg.id of the message handed to _store_message
    pending,        \* bag of messages rows flushed in the open transaction
    client,         \* the TelegramClient of each account in this run
    session,        \* the string each client's StringSession was built from
    error,          \* the exception propagating out of the run
    \* observations of the run: they steer no step of the poller
    start_id,       \* last_id when the running fetch started
    nflood,         \* rate-limit signals raised in the running fetch
    lastw,          \* suggested wait of the last signal
    clean_start,    \* no committed row above the cursor when the fetch started
    added,          \* messages rows committed by the running fetch
    unchanged,      \* pair: nothing published since its last completed fetch
    rerun,          \* the running fetch started, and stayed, unchanged
    crash_mid,      \* the last kill hit a fetch that had committed messages
    resuming        \* this run follows such a kill

\* The web application (web/routes/channels.py) and the rows it shares with
\* the poller.
VARIABLES
    channel_rows,           \* table channels: records [id, username]
    subscriptions,          \* table subscriptions: <<user, channel id>>
    account_channel_state,  \* table account_channel_state: <<account, channel id>>
    response,               \* the last request and its HTTP status
    awaiting,               \* subscriptions made since the last poll run
    last_pass,              \* the last poll run: what awaited it, what it fetched
    latest                  \* the last successful call of a user for a channel

web == <<channel_rows, subscriptions, account_channel_state, response,
         awaiting, last_pass, latest>>

\* The periodic jobs (worker/topics.py, schedule_jobs).
VARIABLES
    job_pc,         \* where each job's _periodic task stands
    job_session,    \* the session the job's with-block is bound to, 0 if none
    open_sessions,  \* the sessions that are open
    opened,         \* how many sessions session_factory has made
    held,           \* the sessions each job has had
    runs,           \* how many iterations each job has begun
    sched_pc        \* where schedule_jobs stands

sched == <<job_pc, job_session, open_sessions, opened, held, runs, sched_pc>>

\* Clustering and ranking (worker/topics.py) over the stored messages.
VARIABLES
    now,            \* datetime.utcnow(), in hours
    msgs,           \* table messages, as the two jobs read it
    topics,         \* table topics
    topic_messages, \* table topic_messages: <<topic id, message id>>
    ranking,        \* table ranking
    cl_pc,          \* cluster_topics: idle, or queried and not yet committed
    clusters,       \* cluster_topics: its list of clusters
    ranked_at,      \* the clock of the last compute_ranking run, NULL if none
    rank_error,     \* how the last compute_ranking run ended
    rank_fresh      \* no row of messages or topics written since that run

pipe == <<now, msgs, topics, topic_messages, ranking, cl_pc, clusters,
          ranked_at, rank_error, rank_fresh>>

\* The vault (web/crypto.py): one stored credential and what was made of it.
VARIABLES
    vault           \* [secret, issued, cipher, kver, out, op]

\* GET /top (web/routes/top.py): the last call and the cache of its results.
VARIABLES
    top             \* [by, window, status, out, cache, op]

\* Login (web/routes/auth.py): table users and the callbacks being handled.
VARIABLES
    auth            \* [token, users, call]

\* The variables of the components beyond the poller.
beyond == <<web, sched, pipe, vault, top, auth>>

store == <<messages, media_assets, last_msg_id>>
remote == <<upstream, media>>
loop == <<todo, account, stodo>>
fetch == <<channel, last_id, attempt, wait_time, msg>>
obs == <<start_id, nflood, lastw, clean_start, added, unchanged,
         rerun, crash_mid, resuming>>
\* The variables of the poller.
poller == <<store, remote, pc, loop, fetch, pending, client, session, error, obs>>

\* The variables of the components beyond the web application.
beyond_web == <<poller, sched, pipe, vault, top, auth>>

\* The variables of the components beyond the periodic jobs.
beyond_sched == <<poller, web, pipe, vault, top, auth>>

\* The variables of the components beyond clustering and ranking.
beyond_pipe == <<poller, web, sched, vault, top, auth>>

\* The variables of the components beyond the vault.
beyond_vault == <<poller, web, sched, pipe, top, auth>>

\* The variables of the components beyond GET /top.
beyond_top == <<poller, web, sched, vault, auth>>

\* The variables of the components beyond the login.
beyond_auth == <<poller, web, sched, pipe, vault, top>>

vars == <<store, remote, pc, loop, fetch, pending, client, session, error, obs,
          beyond>>

\* Positions at which no run of poll_accounts is in progress.
Ended == {"idle", "returned", "raised", "crashed"}

\* Positions at which the coroutine is suspended on an await.
Suspended == {"connect", "iter", "download", "sleep", "finally"}

\* Positions inside _fetch_channel_messages.
InFetch == {"iter", "store", "download", "sleep"}

Ids == 1..MaxMsgId

Row(ch, id) == <<ch, id>>

\* The source ids of the committed messages rows of a channel.
Committed(ch) == {r[2] : r \in {q \in BagToSet(messages) : q[1] = ch}}

\* uq_messages_channel_msg: the INSERT of a row conflicts with a row that is
\* committed or was flushed earlier in the same transaction.
UniqueViolation(row) == CopiesIn(row, messages) + CopiesIn(row, pending) > 0

\* client.iter_messages(username, min_id=min_id, reverse=True): the ids above
\* min_id, oldest first; the iterator is lazy, so its next element is the
\* lowest id above the one it yielded last.
iter_messages(ch, min_id) == {id \in upstream[ch] : id > min_id}

NextMsg(ch, min_id) ==
    CHOOSE id \in iter_messages(ch, min_id) :
        \A j \in iter_messages(ch, min_id) : id <= j

\* ------------------------------------------------------------ web routes
\* Bound on the rows of table channels.
MaxChannelRows == 4

Users == {"u1", "u2", "u3"}

\* TGAccount.user_id
owner(a) ==
    CASE a = "a1" -> "u1"
      [] a = "a2" -> "u2"
      [] a = "a3" -> "u3"
      [] OTHER -> "u1"

\* What get_entity answers for an identifier: the entity's username.  c1 is a
\* public channel, c2 a private one, which has no username.
username(ch) == IF ch = "c1" THEN "c1" ELSE None

ChannelIds == 1..MaxChannelRows

\* The rows the two channels of the poller have in table channels.
SeedChannels == {[id |-> 1, username |-> "c1"], [id |-> 2, username |-> None]}

\* The cursor rows of the poller, by channel id.
SeedStates == {<<"a1", 1>>, <<"a1", 2>>, <<"a2", 1>>, <<"a3", 2>>}

WebRest ==
    /\ channel_rows = SeedChannels
    /\ subscriptions = {}
    /\ account_channel_state = SeedStates
    /\ response = <<"none", "none">>
    /\ awaiting = {}
    /\ last_pass = [awaiting |-> {}, fetched |-> {}]
    /\ latest = [u \in Users, ch \in Channels |-> "none"]

WebInit ==
    /\ channel_rows = SeedChannels
    /\ subscriptions = {}
    /\ account_channel_state \in SUBSET SeedStates
    /\ response = <<"none", "none">>
    /\ awaiting = {}
    /\ last_pass = [awaiting |-> {}, fetched |-> {}]
    /\ latest = [u \in Users, ch \in Channels |-> "none"]

\* The channel a row of table channels stands for.
entity(id) ==
    CHOOSE ch \in Channels :
        \E r \in channel_rows : r.id = id /\ r.username = username(ch)

\* GET /my: the channel of every subscription of the user.
my_channels(u) == {r \in channel_rows : <<u, r.id>> \in subscriptions}

\* POST /subscribe
Subscribe(u, ch, resolves) ==
    LET accts == {a \in Accounts : owner(a) = u /\ is_active(a)}
        new == Cardinality(channel_rows) + 1
        found == {r \in channel_rows :
                     username(ch) # None /\ r.username = username(ch)}
    IN  /\ Cardinality(channel_rows) < MaxChannelRows
        /\ IF accts = {}
           THEN /\ response' = <<"subscribe", "400">>
                /\ UNCHANGED <<channel_rows, subscriptions, awaiting, latest>>
           ELSE \E a \in accts :
                IF ~decrypt_string_session(stored_cipher(a), kver(a)).ok
                THEN /\ response' = <<"subscribe", "500">>
                     /\ UNCHANGED <<channel_rows, subscriptions, awaiting, latest>>
                ELSE IF ~resolves
                THEN /\ response' = <<"subscribe", "400">>
                     /\ UNCHANGED <<channel_rows, subscriptions, awaiting, latest>>
                ELSE \E id \in IF found = {} THEN {new}
                               ELSE {r.id : r \in found} :
                     /\ channel_rows' = channel_rows \cup
                            {[id |-> id, username |-> username(ch)]}
                     /\ subscriptions' = subscriptions \cup {<<u, id>>}
                     /\ awaiting' = awaiting \cup {<<u, id>>}
                     /\ latest' = [latest EXCEPT ![u, ch] = "subscribe"]
                     /\ response' = <<"subscribe", "200">>
        /\ UNCHANGED <<account_channel_state, last_pass, beyond_web>>

\* DELETE /unsubscribe
Unsubscribe(u, id) ==
    /\ IF id \notin {r.id : r \in channel_rows} \/ <<u, id>> \notin subscriptions
       THEN /\ response' = <<"unsubscribe", "404">>
            /\ UNCHANGED <<subscriptions, awaiting, latest>>
       ELSE /\ subscriptions' = subscriptions \ {<<u, id>>}
            /\ latest' = [latest EXCEPT ![u, entity(id)] = "unsubscribe"]
            /\ awaiting' = awaiting \ {<<u, id>>}
            /\ response' = <<"unsubscribe", "200">>
    /\ UNCHANGED <<channel_rows, account_channel_state, last_pass, beyond_web>>

\* One run of poll_accounts in which nothing fails: it fetches every cursor
\* row of every active account that has a stored session.
PollPass ==
    /\ last_pass' = [awaiting |-> awaiting,
                     fetched |-> {p \in account_channel_state :
                                     is_active(p[1]) /\ session_cipher(p[1])}]
    /\ awaiting' = {}
    /\ response' = <<"none", "none">>
    /\ UNCHANGED <<channel_rows, subscriptions, account_channel_state, latest,
                   beyond_web>>

NextWeb ==
    \/ \E u \in Users, ch \in Channels, resolves \in BOOLEAN :
           Subscribe(u, ch, resolves)
    \/ \E u \in Users, id \in ChannelIds : Unsubscribe(u, id)
    \/ PollPass

\* --------------------------------------------------------- schedule_jobs
\* Bound on the iterations of one job.
MaxRuns == 3

\* The two tasks of asyncio.gather.
Jobs == {"cluster_topics", "compute_ranking"}

\* schedule_jobs has called gather; no task has run yet.
SchedInit ==
    /\ job_pc = [j \in Jobs |-> "ready"]
    /\ job_session = [j \in Jobs |-> 0]
    /\ open_sessions = {}
    /\ opened = 0
    /\ held = [j \in Jobs |-> {}]
    /\ runs = [j \in Jobs |-> 0]
    /\ sched_pc = "gather"

\* session_factory(): a session no one has had.
session_factory(n) == n + 1

\* A with-block that would leave its session open.
exit_with_leak(open, s) == open

\* The end of the with-block, on return and on exception: session.close().
exit_with(open, s) == open \ {s}

\* `with session_factory() as session:` at the start of an iteration, at once
\* when the task starts and again when its sleep is over.  func is not a
\* coroutine: while it runs, no other task does.
EnterWith(j) ==
    /\ job_pc[j] \in {"ready", "sleep"}
    /\ \A k \in Jobs : job_pc[k] # "running"
    /\ runs[j] < MaxRuns
    /\ opened' = session_factory(opened)
    /\ job_session' = [job_session EXCEPT ![j] = opened']
    /\ open_sessions' = open_sessions \cup {opened'}
    /\ held' = [held EXCEPT ![j] = @ \cup {opened'}]
    /\ runs' = [runs EXCEPT ![j] = @ + 1]
    /\ job_pc' = [job_pc EXCEPT ![j] = "running"]
    /\ UNCHANGED <<sched_pc, beyond_sched>>

\* func(session) returns; the with-block ends; await asyncio.sleep(interval).
FuncReturn(j) ==
    /\ job_pc[j] = "running"
    /\ open_sessions' = exit_with(open_sessions, job_session[j])
    /\ job_session' = [job_session EXCEPT ![j] = 0]
    /\ job_pc' = [job_pc EXCEPT ![j] = "sleep"]
    /\ UNCHANGED <<opened, held, runs, sched_pc, beyond_sched>>

\* func(session) raises; the with-block ends; nothing in _periodic catches,
\* so the task is done with the exception and gather hands it to
\* schedule_jobs, which raises it.
FuncRaise(j) ==
    /\ job_pc[j] = "running"
    /\ open_sessions' = exit_with(open_sessions, job_session[j])
    /\ job_session' = [job_session EXCEPT ![j] = 0]
    /\ job_pc' = [job_pc EXCEPT ![j] = "raised"]
    /\ sched_pc' = "raised"
    /\ UNCHANGED <<opened, held, runs, beyond_sched>>

\* After schedule_jobs has raised, the event loop may be closed: the task of
\* the other job is cancelled in its sleep.
LoopClosed(j) ==
    /\ sched_pc = "raised"
    /\ job_pc[j] \in {"ready", "sleep"}
    /\ job_pc' = [job_pc EXCEPT ![j] = "cancelled"]
    /\ UNCHANGED <<job_session, open_sessions, opened, held, runs, sched_pc,
                   beyond_sched>>

NextSched ==
    \/ \E j \in Jobs : EnterWith(j)
    \/ \E j \in Jobs : FuncReturn(j)
    \/ \E j \in Jobs : FuncRaise(j)
    \/ \E j \in Jobs : LoopClosed(j)

\* ------------------------------------------------------- stored messages
\* Bound on the rows of table messages.
MaxMsgs == 2
\* Bound on the clock.
MaxNow == 2
\* The view count of a message that has been seen.
MaxViews == 1

\* timedelta(hours=24), the window of cluster_topics, in hours.
ClusterWindow == 24
\* The windows of compute_ranking, in hours.
Window24h == 24
Window7d == 168

\* Message.date of the messages ingested: the oldest timestamp inside each
\* window at clock 0, clock 0 itself, and a timestamp after it.
Dates == {0 - Window7d, 0 - Window24h, 0, MaxNow}

\* Message.text: None or empty, and three texts of which the second shares a
\* letter with each of the others.
Texts == {<<>>, <<1, 2>>, <<2, 3>>, <<3, 4>>}

\* views, reactions, forwards, comments of a message: all missing, or seen
\* and never forwarded.
Counters == {<<NULL, NULL, NULL, NULL>>, <<MaxViews, NULL, 0, NULL>>}

\* The text of the messages that are ranked: compute_ranking reads no text.
RankedText == <<1, 2>>

\* The counters of a message no one has seen.
NoCounters == CHOOSE c \in Counters : \A i \in 1..4 : c[i] = NULL

Min(a, b) == IF a < b THEN a ELSE b

PipeInit ==
    /\ now = 0
    /\ msgs = {}
    /\ topics = {}
    /\ topic_messages = {}
    /\ ranking = {}
    /\ cl_pc = "idle"
    /\ clusters = <<>>
    /\ ranked_at = NULL
    /\ rank_error = "none"
    /\ rank_fresh = FALSE

\* The row of table messages with the given id.
MessageRow(id) == CHOOSE m \in msgs : m.id = id

\* Message.topic_messages.any()
Linked(id) == \E tm \in topic_messages : tm[2] = id

\* The poller commits a message (_store_message).
Ingest(d, t, c) ==
    /\ Cardinality(msgs) < MaxMsgs
    /\ msgs' = msgs \cup {[id |-> Cardinality(msgs) + 1, date |-> d, text |-> t,
                           counters |-> c]}
    /\ rank_fresh' = FALSE
    /\ UNCHANGED <<now, topics, topic_messages, ranking, cl_pc, clusters,
                   ranked_at, rank_error, beyond_pipe>>

\* An hour passes; a run of cluster_topics takes less.
Tick ==
    /\ now < MaxNow
    /\ cl_pc = "idle"
    /\ now' = now + 1
    /\ UNCHANGED <<msgs, topics, topic_messages, ranking, cl_pc, clusters,
                   ranked_at, rank_error, rank_fresh, beyond_pipe>>

\* ---------------------------------------------------------- cluster_topics
\* threshold = 0.3
ThresholdNum == 3
ThresholdDen == 10
\* String(255), the length a title is cut to.
TitleLen == 255

\* The length of the longest common block of a from i and b from j, inside
\* a[i..ahi-1] and b[j..bhi-1].
BlockLen(a, i, ahi, b, j, bhi) ==
    Max({k \in 0..Min(ahi - i, bhi - j) :
            \A d \in 0..(k - 1) : a[i + d] = b[j + d]})

\* SequenceMatcher.find_longest_match: the longest block, the one earliest
\* in a and, of those, earliest in b.
find_longest_match(a, alo, ahi, b, blo, bhi) ==
    LET best == Max({BlockLen(a, i, ahi, b, j, bhi) :
                        i \in alo..(ahi - 1), j \in blo..(bhi - 1)})
        i0 == CHOOSE i \in alo..(ahi - 1) :
                /\ \E j \in blo..(bhi - 1) : BlockLen(a, i, ahi, b, j, bhi) = best
                /\ \A h \in alo..(i - 1) : \A j \in blo..(bhi - 1) :
                       BlockLen(a, h, ahi, b, j, bhi) < best
        j0 == CHOOSE j \in blo..(bhi - 1) :
                /\ BlockLen(a, i0, ahi, b, j, bhi) = best
                /\ \A h \in blo..(j - 1) : BlockLen(a, i0, ahi, b, h, bhi) < best
    IN  <<i0, j0, best>>

RECURSIVE matches(_, _, _, _, _, _)
\* SequenceMatcher.get_matching_blocks: the total size of the blocks, found
\* by the longest block and then the blocks to its left and to its right.
matches(a, alo, ahi, b, blo, bhi) ==
    IF alo >= ahi \/ blo >= bhi
    THEN 0
    ELSE LET m == find_longest_match(a, alo, ahi, b, blo, bhi)
         IN  IF m[3] = 0
             THEN 0
             ELSE m[3] + matches(a, alo, m[1], b, blo, m[2])
                       + matches(a, m[1] + m[3], ahi, b, m[2] + m[3], bhi)

\* _similarity(a, b) >= threshold; the ratio is 2 * matches / total length.
similar(a, b) ==
    /\ a # <<>> /\ b # <<>>
    /\ 2 * matches(a, 1, Len(a) + 1, b, 1, Len(b) + 1) * ThresholdDen
           >= ThresholdNum * (Len(a) + Len(b))

\* The loop body of lines 74-82: msg joins the first cluster whose first
\* member is similar to it, or opens a cluster.
\* A loop that would open a cluster for every message.
place_alone(cs, id) == Append(cs, <<id>>)

place(cs, id) ==
    LET fits == {i \in 1..Len(cs) :
                    similar(MessageRow(id).text, MessageRow(cs[i][1]).text)}
    IN  IF fits = {}
        THEN Append(cs, <<id>>)
        ELSE [cs EXCEPT ![CHOOSE i \in fits : \A k \in fits : i <= k]
                            = Append(@, id)]

RECURSIVE greedy(_, _)
\* The loop of lines 73-82 over the messages in the order of the query.
greedy(cs, list) ==
    IF list = <<>> THEN cs ELSE greedy(place(cs, Head(list)), Tail(list))

\* A query that would select linked messages too.
candidates_linked_too == {m.id : m \in {r \in msgs : r.date >= now - ClusterWindow}}

\* The messages the query of lines 67-71 selects.
candidates == {m.id : m \in {r \in msgs : r.date >= now - ClusterWindow
                                          /\ ~Linked(r.id)}}

\* The orders in which the query, which has no ORDER BY, may return them.
Orders(S) == {q \in [1..Cardinality(S) -> S] :
                 \A i, j \in 1..Cardinality(S) : q[i] = q[j] => i = j}

\* (cluster[0].text or "")[:255]
title(t) == SubSeq(t, 1, Min(Len(t), TitleLen))

\* Lines 66-82: the query and the grouping.
ClusterQuery ==
    /\ cl_pc = "idle"
    /\ \E list \in Orders(candidates) : clusters' = greedy(<<>>, list)
    /\ cl_pc' = "queried"
    /\ UNCHANGED <<now, msgs, topics, topic_messages, ranking, ranked_at,
                   rank_error, rank_fresh, beyond_pipe>>

\* An id that would be the id of an earlier topic.
topic_id_reused(n, i) == i

\* topic.id after the flush: the i-th topic added to a table of n rows.
topic_id(n, i) == n + i

\* Lines 84-93: a topic and its links for every cluster, then the commit.
ClusterCommit ==
    /\ cl_pc = "queried"
    /\ topics' = topics \cup
           {[id |-> topic_id(Cardinality(topics), i),
             title |-> title(MessageRow(clusters[i][1]).text),
             created_at |-> now] : i \in 1..Len(clusters)}
    /\ topic_messages' = topic_messages \cup UNION
           {{<<topic_id(Cardinality(topics), i), clusters[i][k]>> :
                k \in 1..Len(clusters[i])} : i \in 1..Len(clusters)}
    /\ cl_pc' = "idle"
    /\ clusters' = <<>>
    /\ rank_fresh' = (rank_fresh /\ clusters = <<>>)
    /\ UNCHANGED <<now, msgs, ranking, ranked_at, rank_error, beyond_pipe>>

\* --------------------------------------------------------- compute_ranking
Windows == {"24h", "7d"}

\* The length of a window, in hours.
Hours(w) == IF w = "24h" THEN Window24h ELSE Window7d

\* Message.date >= start
InWindow(m, w) == m.date >= now - Hours(w)

\* `x or 0` for a counter
or0(x) == IF x = NULL THEN 0 ELSE x

\* _popularity(msg)
popularity(m) ==
    or0(m.counters[1]) + or0(m.counters[2]) + or0(m.counters[3])
        + or0(m.counters[4])

RECURSIVE sum_popularity(_)
\* sum(_popularity(m) for m in topic_msgs)
sum_popularity(S) ==
    IF S = {} THEN 0
    ELSE LET m == CHOOSE x \in S : TRUE
         IN  popularity(m) + sum_popularity(S \ {m})

\* 1 + age_hours, the divisor of the trend, for a timestamp.
divisor(d) == 1 + (now - d)

\* float(popularity) * (1 / (1 + age_hours)), as a fraction <<n, d>> with
\* d > 0.  divisor(d) is not 0.
score(pop, d) ==
    IF pop = 0 THEN <<0, 1>>
    ELSE IF divisor(d) < 0 THEN <<0 - pop, 0 - divisor(d)>>
    ELSE <<pop, divisor(d)>>

\* 1 / (1 + age_hours), as a fraction <<n, d>> with d > 0.  1 + age is not 0.
trend(age) == IF 1 + age < 0 THEN <<0 - 1, 0 - (1 + age)>> ELSE <<1, 1 + age>>

\* s > t for two scores.
Greater(s, t) == s[1] * t[2] > t[1] * s[2]

\* topic_msgs: the members of a topic inside a window.
topic_msgs(t, w) ==
    {m \in msgs : <<t.id, m.id>> \in topic_messages /\ InWindow(m, w)}

\* max(m.date for m in topic_msgs)
most_recent(S) == Max({m.date : m \in S})

\* The run divides by zero: a ranked timestamp is one hour after the clock.
ZeroDivision ==
    \E w \in Windows :
        \/ \E m \in msgs : InWindow(m, w) /\ divisor(m.date) = 0
        \/ \E t \in topics :
            /\ topic_msgs(t, w) # {}
            /\ divisor(most_recent(topic_msgs(t, w))) = 0

\* The rows one run computes.
computed ==
    {[kind |-> "message", id |-> m.id, window |-> w,
      score |-> score(popularity(m), m.date), indexed |-> now] :
        m \in {x \in msgs : \E v \in Windows : InWindow(x, v)}, w \in Windows}
    \cup
    {[kind |-> "topic", id |-> t.id, window |-> w,
      score |-> score(sum_popularity(topic_msgs(t, w)),
                      most_recent(topic_msgs(t, w))),
      indexed |-> now] : t \in topics, w \in Windows}

\* The key of a row of table ranking.
key(r) == <<r.kind, r.id, r.window>>

\* A run that would rank every topic in every window.
Ranked_every_topic(r) ==
    IF r.kind = "message"
    THEN \E m \in msgs : m.id = r.id /\ InWindow(m, r.window)
    ELSE TRUE

\* The entity of a row is ranked by a run at this clock.
Ranked(r) ==
    IF r.kind = "message"
    THEN \E m \in msgs : m.id = r.id /\ InWindow(m, r.window)
    ELSE \E t \in topics : t.id = r.id /\ topic_msgs(t, r.window) # {}

\* A run that would add a row without looking for the row of its key.
insert_always(table, rows) == table \cup rows

\* session.get(Ranking, pk), then the update of the row or the add.
upsert(table, rows) ==
    {r \in table : \A n \in rows : key(n) # key(r)} \cup rows

\* compute_ranking: one run.  No two runs read the same clock, and the run
\* has the event loop to itself: cluster_topics is not in the middle of a run.
ComputeRanking ==
    /\ now > ranked_at
    /\ cl_pc = "idle"
    /\ ranked_at' = now
    /\ IF ZeroDivision
       THEN /\ rank_error' = "ZeroDivisionError"
            /\ UNCHANGED <<ranking, rank_fresh>>
       ELSE /\ rank_error' = "none"
            /\ ranking' = upsert(ranking, {r \in computed : Ranked(r)})
            /\ rank_fresh' = TRUE
    /\ UNCHANGED <<now, msgs, topics, topic_messages, cl_pc, clusters,
                   beyond_pipe>>

\* ------------------------------------------------------------- the vault
\* Bound on the length of a secret.
MaxSecretLen == 2

Bytes == 0..(ByteMod - 1)

\* The StringSession strings a login can obtain.
Secrets == UNION {[1..n -> Bytes] : n \in 0..MaxSecretLen}

\* What os.urandom can draw.
Nonces == [1..NonceLen -> Bytes]

\* TGAccount.kver of a row: missing, or a number.
KeyVersions == {NULL, 0, 1, 2}

Nothing == [ok |-> FALSE, error |-> "none", value |-> <<>>]

VaultInit ==
    vault = [secret |-> <<>>, issued |-> <<<<>>, NULL>>, cipher |-> <<>>,
             kver |-> NULL, out |-> Nothing, op |-> "none"]

\* encrypt_string_session(s) at the login of the one account this vault
\* follows; the pair it returns is stored in the row.
Encrypt(s, nonce) ==
    /\ vault.op = "none"
    /\ vault' = [secret |-> s,
                 issued |-> encrypt_string_session(s, nonce),
                 cipher |-> encrypt_string_session(s, nonce)[1],
                 kver |-> encrypt_string_session(s, nonce)[2],
                 out |-> Nothing, op |-> "encrypt"]
    /\ UNCHANGED beyond_vault

\* The values byte i of the data can be altered to: another byte and, for
\* the tag, which is the last, the next number too.
Alterations(data, i) ==
    (Bytes \cup (IF i = Len(data) THEN {data[i] + 1} ELSE {})) \ {data[i]}

\* One byte of the ciphertext, as stored, is altered.
Tamper(i) ==
    /\ vault.op # "none"
    /\ vault.cipher = vault.issued[1]
    /\ i \in 1..Len(vault.cipher)
    /\ \E v \in Alterations(b64decode(vault.cipher), i) :
         vault' = [vault EXCEPT
                    !.cipher = b64encode([b64decode(vault.cipher) EXCEPT ![i] = v]),
                    !.out = Nothing, !.op = "tamper"]
    /\ UNCHANGED beyond_vault

\* The row is given another key version.
SetVersion(k) ==
    /\ vault.op # "none"
    /\ k # vault.kver
    /\ vault' = [vault EXCEPT !.kver = k, !.out = Nothing, !.op = "version"]
    /\ UNCHANGED beyond_vault

\* decrypt_string_session(account.session_cipher, account.kver)
Decrypt ==
    /\ vault.op \notin {"none", "decrypt"}
    /\ vault' = [vault EXCEPT
                    !.out = decrypt_string_session(vault.cipher, vault.kver),
                    !.op = "decrypt"]
    /\ UNCHANGED beyond_vault

NextVault ==
    \/ \E s \in Secrets, nonce \in Nonces : Encrypt(s, nonce)
    \/ \E i \in 1..(NonceLen + MaxSecretLen + 1) : Tamper(i)
    \/ \E k \in KeyVersions : SetVersion(k)
    \/ Decrypt

(***************************************************************************)
(* GET /top (web/routes/top.py, web/cache.py)                              *)
(***************************************************************************)

TopLimit == 10

Bys == {"message", "topic"}
AskedBys == Bys \cup {"channel"}
AskedWindows == Windows \cup {"1h"}

\* cache_get answers None for a key that is absent or has expired.
Miss == [hit |-> FALSE, value |-> <<>>]

TopInit ==
    top = [by |-> "none", window |-> "none", status |-> NULL, out |-> <<>>,
           cache |-> [k \in Bys \X Windows |-> Miss],
           op |-> "none"]

\* The rows of table ranking of one kind and one window.
stored(table, by, w) == {r \in table : r.kind = by /\ r.window = w}

\* order_by(Ranking.score.desc()): the orders the query may return rows in.
ordered(S) ==
    {q \in [1..Cardinality(S) -> S] :
        /\ \A i, j \in 1..Cardinality(S) : i # j => q[i] # q[j]
        /\ \A i, j \in 1..Cardinality(S) :
               i < j => ~Greater(q[j].score, q[i].score)}

\* .limit(10)
limit(q, n) == SubSeq(q, 1, Min(n, Len(q)))

\* db.get(Message, id) or db.get(Topic, id) finds the entity.
exists(by, id) ==
    IF by = "message" THEN \E m \in msgs : m.id = id
    ELSE \E t \in topics : t.id = id

\* The dictionaries built from the rows whose entity exists.
results(q, by) ==
    LET kept == SelectSeq(q, LAMBDA r : exists(by, r.id))
    IN  [i \in 1..Len(kept) |-> [id |-> kept[i].id, score |-> kept[i].score]]

\* GET /top?window=w&by=by
GetTop(by, w) ==
    /\ IF w \notin Windows \/ by \notin Bys
       THEN top' = [top EXCEPT !.by = by, !.window = w, !.status = 400,
                               !.out = <<>>, !.op = "get_top"]
       ELSE IF top.cache[by, w].hit
       THEN top' = [top EXCEPT !.by = by, !.window = w, !.status = 200,
                               !.out = top.cache[by, w].value,
                               !.op = "get_top"]
       ELSE \E q \in ordered(stored(ranking, by, w)) :
                LET res == results(limit(q, TopLimit), by)
                IN  top' = [top EXCEPT
                                !.by = by, !.window = w, !.status = 200,
                                !.out = res,
                                !.cache[by, w] = [hit |-> TRUE, value |-> res],
                                !.op = "get_top"]
    /\ UNCHANGED <<pipe, beyond_top>>

\* The entry of a key expires, ttl seconds after cache_set.
CacheExpire(by, w) ==
    /\ top.cache[by, w].hit
    /\ top' = [top EXCEPT !.cache[by, w] = Miss, !.op = "expire"]
    /\ UNCHANGED <<pipe, beyond_top>>

\* The messages asked about are dated at the start of the clock or a day before.
TopDates == {0 - Window24h, 0}

NextTop ==
    \/ \E d \in TopDates, c \in Counters : Ingest(d, RankedText, c)
    \/ Tick
    \/ ComputeRanking
    \/ \E by \in AskedBys, w \in AskedWindows : GetTop(by, w)
    \/ \E by \in Bys, w \in Windows : CacheExpire(by, w)

(***************************************************************************)
(* Login with Telegram (web/routes/auth.py)                                *)
(***************************************************************************)

MaxTgId == 2

TgIds == 1..MaxTgId
Names == {0, 1}
Tokens == {1, 2}
Workers == {"w1", "w2"}

\* The lines k=v of the data without its hash, sorted by k.
data_check_string(id, name) ==
    IF id = NULL THEN <<name>> ELSE <<id, name>>

\* HMAC-SHA256 under the digest of a token: a value that differs whenever
\* the token or the string differs.
hmac(token, str) == token + ByteMod * Num(str)

\* The hashes a callback may carry: none, or one made with some token for
\* some data.
Hashes ==
    {NULL} \cup {hmac(k, data_check_string(id, n)) :
                    k \in Tokens, id \in TgIds \cup {NULL}, n \in Names}

_verify_telegram_hash(token, data) ==
    IF token = NULL THEN FALSE
    ELSE IF data.hash = NULL THEN FALSE
    ELSE hmac(token, data_check_string(data.id, data.username)) = data.hash

Idle == [pc |-> "idle", id |-> NULL, username |-> NULL, found |-> NULL,
         valid |-> FALSE, status |-> NULL, cookie |-> NULL, op |-> "none"]

\* The login at rest, the token of the bot configured.
AuthRest ==
    auth = [token |-> 1, users |-> {}, call |-> [w \in Workers |-> Idle]]

\* The token of the bot is configured or not.
AuthInit ==
    \E token \in {NULL, 1} :
        auth = [token |-> token, users |-> {}, call |-> [w \in Workers |-> Idle]]

\* A table users without the constraint on tg_id.
unique_off(users, tg_id) == FALSE

\* unique=True on users.tg_id: the insert of a second row is refused.
unique(users, tg_id) == \E r \in users : r.tg_id = tg_id

\* telegram_callback up to the select of the user.
CallbackSelect(w, data) ==
    /\ auth.call[w].pc = "idle"
    /\ IF ~_verify_telegram_hash(auth.token, data)
       THEN auth' = [auth EXCEPT !.call[w] =
                        [Idle EXCEPT !.status = 400, !.op = "rejected"]]
       ELSE IF data.id = NULL
       THEN auth' = [auth EXCEPT !.call[w] =
                        [Idle EXCEPT !.valid = TRUE, !.status = 500,
                                     !.op = "KeyError"]]
       ELSE LET rows == {r \in auth.users : r.tg_id = data.id}
            IN  auth' = [auth EXCEPT !.call[w] =
                    [Idle EXCEPT
                        !.pc = "selected", !.id = data.id,
                        !.username = data.username, !.valid = TRUE,
                        !.found = IF rows = {} THEN NULL
                                  ELSE (CHOOSE r \in rows : TRUE).id]]
    /\ UNCHANGED beyond_auth

\* telegram_callback from the add or the update of the user to the cookie.
CallbackCommit(w) ==
    LET c == auth.call[w]
        new == Cardinality(auth.users) + 1
    IN  /\ c.pc = "selected"
        /\ IF c.found = NULL /\ unique(auth.users, c.id)
           THEN auth' = [auth EXCEPT !.call[w] =
                            [Idle EXCEPT !.valid = TRUE, !.status = 500,
                                         !.op = "IntegrityError"]]
           ELSE IF c.found = NULL
           THEN auth' = [auth EXCEPT
                    !.users = @ \cup {[id |-> new, tg_id |-> c.id,
                                       username |-> c.username]},
                    !.call[w] = [Idle EXCEPT !.valid = TRUE, !.status = 200,
                                             !.cookie = new,
                                             !.op = "inserted"]]
           ELSE auth' = [auth EXCEPT
                    !.users = {IF r.id = c.found
                               THEN [r EXCEPT !.username = c.username]
                               ELSE r : r \in @},
                    !.call[w] = [Idle EXCEPT !.valid = TRUE, !.status = 200,
                                             !.cookie = c.found,
                                             !.op = "updated"]]
        /\ UNCHANGED beyond_auth

NextAuth ==
    \/ \E w \in Workers :
         \E id \in TgIds \cup {NULL}, n \in Names, h \in Hashes :
            CallbackSelect(w, [id |-> id, username |-> n, hash |-> h])
    \/ \E w \in Workers : CallbackCommit(w)

TypeOK ==
    /\ IsABag(messages) /\ DOMAIN messages \subseteq Channels \X Ids
    /\ media_assets \subseteq Channels \X Ids
    /\ last_msg_id \in [Pairs -> (0..MaxMsgId) \cup {NULL}]
    /\ upstream \in [Channels -> SUBSET Ids]
    /\ \A ch \in Channels : media[ch] \subseteq upstream[ch]
    /\ pc \in Ended \cup Suspended \cup {"accounts", "states", "fetched", "store"}
    /\ todo \subseteq Accounts /\ stodo \subseteq Channels
    /\ attempt \in 0..MaxFlood
    /\ error \in {"none", "IntegrityError", "ConnectionError", "Error"}

\* The poller before its first run.
PollerInit ==
    /\ messages = EmptyBag
    /\ media_assets = {}
    /\ last_msg_id = [p \in Pairs |-> InitCursor(p)]
    /\ upstream = [ch \in Channels |-> {}]
    /\ media = [ch \in Channels |-> {}]
    /\ pc = "idle"
    /\ todo = {} /\ account = None /\ stodo = {}
    /\ channel = None /\ last_id = 0 /\ attempt = 0 /\ wait_time = 0 /\ msg = 0
    /\ pending = EmptyBag
    /\ client = [a \in Accounts |-> "none"]
    /\ session = [a \in Accounts |-> <<>>]
    /\ error = "none"
    /\ start_id = 0 /\ nflood = 0 /\ lastw = 0 /\ clean_start = TRUE
    /\ added = 0
    /\ unchanged = [p \in Pairs |-> FALSE]
    /\ rerun = FALSE /\ crash_mid = FALSE /\ resuming = FALSE

Init ==
    /\ PollerInit
    /\ WebRest
    /\ SchedInit
    /\ PipeInit
    /\ VaultInit
    /\ TopInit
    /\ AuthRest

\* The frame of _fetch_channel_messages is gone: its locals, and what was
\* observed of it, hold nothing.
FetchLocalsGone ==
    /\ channel' = None /\ last_id' = 0 /\ attempt' = 0 /\ wait_time' = 0
    /\ msg' = 0
    /\ start_id' = 0 /\ nflood' = 0 /\ lastw' = 0 /\ clean_start' = TRUE
    /\ added' = 0 /\ rerun' = FALSE

\* ------------------------------------------------------- the remote source
\* A message with the next source id appears in a channel; in a channel that
\* carries media it may carry some.  The poller reads the remote source only
\* in the iteration, so what is published at any other moment of a run is
\* placed at the iteration that sees it first.
Publish(ch, m) ==
    /\ pc \in {"idle", "iter"}
    /\ Max(upstream[ch]) < MaxMsgId
    /\ m => carries_media(ch)
    /\ upstream' = [upstream EXCEPT ![ch] = @ \cup {Max(@) + 1}]
    /\ media' = IF m THEN [media EXCEPT ![ch] = @ \cup {Max(upstream[ch]) + 1}]
                     ELSE media
    /\ unchanged' = [p \in Pairs |-> unchanged[p] /\ p[2] # ch]
    /\ rerun' = (rerun /\ ch # channel)
    /\ UNCHANGED <<store, pc, loop, fetch, pending, client, session, beyond, error, 
                   start_id, nflood, lastw, clean_start, added, crash_mid,
                   resuming>>

\* ------------------------------------------------------------ poll_accounts
\* A caller starts a run with a session of its own: select the active accounts.
PollStart ==
    /\ pc \in Ended
    /\ todo' = {a \in Accounts : is_active(a)}
    /\ account' = None /\ stodo' = {}
    /\ pending' = EmptyBag
    /\ client' = [a \in Accounts |-> "none"]
    /\ session' = [a \in Accounts |-> <<>>]
    /\ error' = "none"
    /\ resuming' = (pc = "crashed" /\ crash_mid)
    /\ crash_mid' = FALSE
    /\ pc' = "accounts"
    /\ UNCHANGED <<store, remote, fetch, start_id, nflood, lastw,
                   clean_start, added, unchanged, rerun, beyond>>

\* `if not account.session_cipher: continue`
SkipAccount(a) ==
    /\ pc = "accounts" /\ a \in todo /\ ~session_cipher(a)
    /\ todo' = todo \ {a}
    /\ UNCHANGED <<store, remote, pc, account, stodo, fetch, pending, client, session, beyond,
                   error, obs>>

\* client = TelegramClient(StringSession(account.session_cipher), ...)
CreateClient(a) ==
    /\ pc = "accounts" /\ a \in todo /\ session_cipher(a)
    /\ todo' = todo \ {a}
    /\ account' = a
    /\ client' = [client EXCEPT ![a] = "created"]
    /\ session' = [session EXCEPT ![a] = stored_cipher(a)]
    /\ pc' = "connect"
    /\ UNCHANGED <<store, remote, stodo, fetch, pending, error, obs, beyond>>

\* `await client.connect()` returns; the try block is entered.
ConnectOk ==
    /\ pc = "connect"
    /\ client' = [client EXCEPT ![account] = "connected"]
    /\ stodo' = states(account)
    /\ pc' = "states"
    /\ UNCHANGED <<store, remote, todo, account, fetch, pending, session, error,
                   obs, beyond>>

\* `await client.connect()` raises: the call stands before the try block, so
\* the exception leaves poll_accounts without passing the finally clause.
ConnectFail ==
    /\ pc = "connect"
    /\ error' = "ConnectionError"
    /\ pc' = "raised"
    /\ UNCHANGED <<store, remote, loop, fetch, pending, client, session, beyond, obs>>

\* The accounts loop is exhausted: poll_accounts returns.
PollReturn ==
    /\ pc = "accounts" /\ todo = {}
    /\ pc' = "returned"
    /\ UNCHANGED <<store, remote, loop, fetch, pending, client, session, beyond, error, obs>>

\* The states loop is exhausted: the try block is left normally.
StatesDone ==
    /\ pc \in {"states", "fetched"} /\ stodo = {}
    /\ pc' = "finally"
    /\ UNCHANGED <<store, remote, loop, fetch, pending, client, session, beyond, error, obs>>

\* `finally: await client.disconnect()`, then the next account or the
\* exception that entered the finally clause.
Disconnect ==
    /\ pc = "finally"
    /\ client' = [client EXCEPT ![account] = "disconnected"]
    /\ pc' = IF error = "none" THEN "accounts" ELSE "raised"
    /\ FetchLocalsGone
    /\ UNCHANGED <<store, remote, loop, pending, session, error, unchanged,
                   crash_mid, resuming, beyond>>

\* -------------------------------------------------- _fetch_channel_messages
\* except errors.FloodWaitError as e: wait_time = e.seconds * (2**attempt);
\* the coroutine then sleeps.  The open transaction is left as it is.
CatchFloodWait(w) ==
    /\ attempt < MaxFlood
    /\ wait_time' = w * Pow2(attempt)
    /\ pc' = "sleep"
    /\ nflood' = nflood + 1
    /\ lastw' = w
    /\ UNCHANGED <<store, remote, loop, channel, last_id, attempt, msg, pending,
                   client, session, beyond, error, start_id, clean_start, added,
                   unchanged, rerun, crash_mid, resuming>>

\* An exception other than FloodWaitError passes through _fetch_channel_messages
\* into the finally clause of poll_accounts.
Raise(e) ==
    /\ error' = e
    /\ pc' = "finally"

\* The next state of the loop: _fetch_channel_messages is called;
\* last_id = state.last_msg_id or 0; attempt = 0.
FetchStartKeepAttempt(ch) ==
    /\ pc \in {"states", "fetched"} /\ ch \in stodo
    /\ stodo' = stodo \ {ch}
    /\ channel' = ch
    /\ last_id' = Val(last_msg_id[<<account, ch>>])
    /\ msg' = 0
    /\ pc' = "iter"
    /\ start_id' = last_id'
    /\ nflood' = 0 /\ lastw' = 0 /\ added' = 0
    /\ clean_start' = (\A id \in Committed(ch) : id <= last_id')
    /\ rerun' = unchanged[<<account, ch>>]
    /\ UNCHANGED <<store, remote, todo, account, attempt, wait_time, pending,
                   client, session, beyond, error, unchanged, crash_mid, resuming>>

FetchStartFromZero(ch) ==
    /\ pc \in {"states", "fetched"} /\ ch \in stodo
    /\ stodo' = stodo \ {ch}
    /\ channel' = ch
    /\ last_id' = 0
    /\ attempt' = 0 /\ wait_time' = 0 /\ msg' = 0
    /\ pc' = "iter"
    /\ start_id' = Val(last_msg_id[<<account, ch>>])
    /\ nflood' = 0 /\ lastw' = 0 /\ added' = 0
    /\ clean_start' = (\A id \in Committed(ch) : id <= start_id')
    /\ rerun' = unchanged[<<account, ch>>]
    /\ UNCHANGED <<store, remote, todo, account, pending, client, session, beyond, error,
                   unchanged, crash_mid, resuming>>

FetchStartSkipOne(ch) ==
    /\ pc \in {"states", "fetched"} /\ ch \in stodo
    /\ stodo' = stodo \ {ch}
    /\ channel' = ch
    /\ last_id' = Val(last_msg_id[<<account, ch>>]) + 1
    /\ attempt' = 0 /\ wait_time' = 0 /\ msg' = 0
    /\ pc' = "iter"
    /\ start_id' = Val(last_msg_id[<<account, ch>>])
    /\ nflood' = 0 /\ lastw' = 0 /\ added' = 0
    /\ clean_start' = (\A id \in Committed(ch) : id <= start_id')
    /\ rerun' = unchanged[<<account, ch>>]
    /\ UNCHANGED <<store, remote, todo, account, pending, client, session, beyond, error,
                   unchanged, crash_mid, resuming>>

FetchStart(ch) ==
    /\ pc \in {"states", "fetched"} /\ ch \in stodo
    /\ stodo' = stodo \ {ch}
    /\ channel' = ch
    /\ last_id' = Val(last_msg_id[<<account, ch>>])
    /\ attempt' = 0 /\ wait_time' = 0 /\ msg' = 0
    /\ pc' = "iter"
    /\ start_id' = last_id'
    /\ nflood' = 0 /\ lastw' = 0 /\ added' = 0
    /\ clean_start' = (\A id \in Committed(ch) : id <= last_id')
    /\ rerun' = unchanged[<<account, ch>>]
    /\ UNCHANGED <<store, remote, todo, account, pending, client, session, beyond, error,
                   unchanged, crash_mid, resuming>>

\* `async for msg in client.iter_messages(...)` yields the next message, which
\* is handed to _store_message.
IterYield ==
    /\ pc = "iter" /\ iter_messages(channel, last_id) # {}
    /\ msg' = NextMsg(channel, last_id)
    /\ pc' = "store"
    /\ UNCHANGED <<store, remote, loop, channel, last_id, attempt, wait_time,
                   pending, client, session, beyond, error, obs>>

\* The iterator is exhausted: state.last_msg_id = last_id; session.commit();
\* break.  The commit writes whatever the transaction holds.
CommitCursor ==
    /\ pc = "iter" /\ iter_messages(channel, last_id) = {}
    /\ last_msg_id' = [last_msg_id EXCEPT ![<<account, channel>>] = last_id]
    /\ messages' = messages (+) pending
    /\ pending' = EmptyBag
    /\ added' = added + BagCardinality(pending)
    /\ unchanged' = [unchanged EXCEPT ![<<account, channel>>] = TRUE]
    /\ pc' = "fetched"
    /\ UNCHANGED <<media_assets, remote, loop, fetch, client, session, beyond, error,
                   start_id, nflood, lastw, clean_start, rerun,
                   crash_mid, resuming>>

\* The remote source answers the iteration with a rate-limit signal carrying
\* the suggested wait w.
IterFlood(w) ==
    /\ pc = "iter"
    /\ CatchFloodWait(w)

\* The iteration fails with another exception (connection lost, ...).
IterError ==
    /\ pc = "iter"
    /\ Raise("Error")
    /\ UNCHANGED <<store, remote, loop, fetch, pending, client, session, beyond, obs>>

\* `await asyncio.sleep(wait_time)` returns; attempt += 1; the while loop
\* calls iter_messages again with min_id=last_id.  wait_time is assigned
\* again before it is read again, so its old value is dropped here.
WakeUp ==
    /\ pc = "sleep"
    /\ attempt' = attempt + 1
    /\ wait_time' = 0
    /\ pc' = "iter"
    /\ UNCHANGED <<store, remote, loop, channel, last_id, msg, pending, client, session, beyond,
                   error, obs>>

\* ------------------------------------------------------------ _store_message
\* session.add(db_message); session.flush(): the INSERT.  A conflict with
\* uq_messages_channel_msg raises IntegrityError, which rolls the transaction
\* back and is caught nowhere.  Without media the function goes on to
\* session.commit(), and the caller sets last_id = msg.id.
StoreMessage ==
    /\ pc = "store"
    /\ IF UniqueViolation(Row(channel, msg))
       THEN /\ pending' = EmptyBag
            /\ Raise("IntegrityError")
            /\ UNCHANGED <<messages, last_id, added>>
       ELSE IF msg \in media[channel]
       THEN /\ pending' = pending (+) SetToBag({Row(channel, msg)})
            /\ pc' = "download"
            /\ UNCHANGED <<messages, last_id, added, error>>
       ELSE /\ messages' = messages (+) pending (+) SetToBag({Row(channel, msg)})
            /\ pending' = EmptyBag
            /\ added' = added + BagCardinality(pending) + 1
            /\ last_id' = msg
            /\ pc' = "iter"
            /\ UNCHANGED error
    /\ UNCHANGED <<media_assets, last_msg_id, remote, loop, channel, attempt,
                   wait_time, msg, client, session, beyond, start_id, nflood,
                   lastw, clean_start, unchanged, rerun, crash_mid, resuming>>

\* `await msg.download_media(bytes)` returns; the bytes are uploaded, the
\* MediaAsset is added and session.commit() writes it with the message; the
\* caller sets last_id = msg.id.
DownloadOk ==
    /\ pc = "download"
    /\ media_assets' = media_assets \cup {Row(channel, msg)}
    /\ messages' = messages (+) pending
    /\ pending' = EmptyBag
    /\ added' = added + BagCardinality(pending)
    /\ last_id' = msg
    /\ pc' = "iter"
    /\ UNCHANGED <<last_msg_id, remote, loop, channel, attempt, wait_time, msg,
                   client, session, beyond, error, start_id, nflood, lastw,
                   clean_start, unchanged, rerun, crash_mid, resuming>>

\* download_media raises FloodWaitError: it passes through _store_message,
\* whose flushed row stays in the open transaction, to the handler of
\* _fetch_channel_messages.
DownloadFlood(w) ==
    /\ pc = "download"
    /\ CatchFloodWait(w)

\* The download or the upload fails with another exception.
DownloadError ==
    /\ pc = "download"
    /\ Raise("Error")
    /\ UNCHANGED <<store, remote, loop, fetch, pending, client, session, beyond, obs>>

\* ------------------------------------------------------------- the process
\* The worker process is killed while the coroutine is suspended: its locals
\* and its open transaction are lost, the committed rows stay.
Crash ==
    /\ pc \in Suspended
    /\ crash_mid' = (pc \in InFetch /\ added > 0)
    /\ pc' = "crashed"
    /\ todo' = {} /\ account' = None /\ stodo' = {}
    /\ FetchLocalsGone
    /\ pending' = EmptyBag
    /\ client' = [a \in Accounts |-> "none"]
    /\ session' = [a \in Accounts |-> <<>>]
    /\ error' = "none"
    /\ UNCHANGED <<store, remote, unchanged, resuming, beyond>>

Next ==
    \/ \E ch \in Channels, m \in BOOLEAN : Publish(ch, m)
    \/ PollStart
    \/ \E a \in Accounts : SkipAccount(a)
    \/ \E a \in Accounts : CreateClient(a)
    \/ ConnectOk
    \/ ConnectFail
    \/ PollReturn
    \/ \E ch \in Channels : FetchStart(ch)
    \/ StatesDone
    \/ Disconnect
    \/ IterYield
    \/ CommitCursor
    \/ \E w \in 1..MaxWait : IterFlood(w)
    \/ IterError
    \/ WakeUp
    \/ StoreMessage
    \/ DownloadOk
    \/ \E w \in 1..MaxWait : DownloadFlood(w)
    \/ DownloadError
    \/ Crash

Spec == Init /\ [][Next]_vars

\* The steps the event loop takes in a fetch when the remote source and the
\* storage answer: the coroutine is resumed after every await.
FetchStep ==
    \/ IterYield
    \/ CommitCursor
    \/ WakeUp
    \/ StoreMessage
    \/ DownloadOk

\* The poller with the event loop resuming the fetch whenever it can go on.
SpecLive == Init /\ [][Next]_vars /\ WF_vars(FetchStep)

\* The web application and the poller's runs, as the rows of the store see them.
InitWeb == PollerInit /\ WebInit /\ SchedInit /\ PipeInit /\ VaultInit /\ TopInit
    /\ AuthRest

SpecWeb == InitWeb /\ [][NextWeb]_vars

InitSched == PollerInit /\ WebRest /\ SchedInit /\ PipeInit /\ VaultInit /\ TopInit
    /\ AuthRest

\* The periodic jobs alone.
SpecSched == InitSched /\ [][NextSched]_vars

NextPipe ==
    \/ \E d \in Dates, t \in Texts : Ingest(d, t, NoCounters)
    \/ Tick
    \/ ClusterQuery
    \/ ClusterCommit

InitPipe == PollerInit /\ WebRest /\ SchedInit /\ PipeInit /\ VaultInit /\ TopInit
    /\ AuthRest

\* Ingestion and clustering over the stored messages.
SpecPipe == InitPipe /\ [][NextPipe]_vars

NextRank ==
    \/ \E d \in Dates, c \in Counters : Ingest(d, RankedText, c)
    \/ Tick
    \/ ClusterQuery
    \/ ClusterCommit
    \/ ComputeRanking

InitRank == PollerInit /\ WebRest /\ SchedInit /\ PipeInit /\ VaultInit /\ TopInit
    /\ AuthRest

\* Ingestion, clustering and ranking over the stored messages.
SpecRank == InitRank /\ [][NextRank]_vars

InitVault == PollerInit /\ WebRest /\ SchedInit /\ PipeInit /\ VaultInit /\ TopInit
    /\ AuthRest

\* The vault: credentials encrypted, stored, altered and decrypted.
SpecVault == InitVault /\ [][NextVault]_vars

InitTop == PollerInit /\ WebRest /\ SchedInit /\ PipeInit /\ VaultInit /\ TopInit
    /\ AuthRest

InitAuth ==
    /\ PollerInit /\ WebRest /\ SchedInit /\ PipeInit /\ VaultInit /\ TopInit
    /\ AuthInit

\* The callbacks of the login, handled by two workers.
SpecAuth == InitAuth /\ [][NextAuth]_vars

\* Ranking runs and the requests for the top lists.
SpecTop == InitTop /\ [][NextTop]_vars

\* ------------------------------------------------------------------ claims
\* _fetch_channel_messages has returned / is being left by an exception.
FetchReturned == pc = "fetched"
FetchRaised == pc = "finally" /\ error # "none"

\* C1: after any sequence of poll_accounts runs, however each ended, the
\* cursor of every polled pair equals the highest source id among the
\* messages rows committed for its channel.
C1_CursorEqualsHighestCommitted ==
    pc \in {"returned", "raised", "crashed"} =>
        \A p \in Polled :
            Committed(p[2]) # {} => Val(last_msg_id[p]) = Max(Committed(p[2]))

\* C2: a fetch of a pair for whose channel nothing was published since the
\* pair's last completed fetch ends with no messages row added, with the
\* cursor it started from, and without a uniqueness conflict.
C2_RepollAddsNothing ==
    (rerun /\ (FetchReturned \/ FetchRaised)) =>
        /\ added = 0
        /\ last_msg_id[<<account, channel>>] = start_id
        /\ error # "IntegrityError"

\* A completed re-poll of a channel whose messages are stored.
C2_Witness ==
    /\ FetchReturned /\ rerun
    /\ Committed(channel) # {}
    /\ Max(Committed(channel)) = Max(upstream[channel])

\* C3: a message whose (channel, source id) already has a committed row is
\* skipped silently by _store_message: no exception leaves the fetch for it.
C3_DuplicateSkipped ==
    ~(/\ FetchRaised /\ error = "IntegrityError"
      /\ CopiesIn(Row(channel, msg), messages) > 0)

\* C4: the run that follows a kill between the commit of a batch's messages
\* and the commit of its cursor ends without a uniqueness conflict, and when
\* it returns every message above a pair's first cursor is stored exactly
\* once and every cursor is at the highest published id.
C4_ResumeAfterCrash ==
    /\ (resuming /\ pc = "raised") => error # "IntegrityError"
    /\ (resuming /\ pc = "returned") =>
          \A p \in Polled :
              /\ last_msg_id[p] = Max(upstream[p[2]] \cup {Val(InitCursor(p))})
              /\ \A id \in upstream[p[2]] :
                    id > Val(InitCursor(p)) =>
                        CopiesIn(Row(p[2], id), messages) = 1

\* C5: in every reachable state the committed cursor is not ahead of the
\* committed messages: every published message above the pair's first cursor
\* and not above its committed cursor has a committed row.
C5_CursorNeverAhead ==
    \A p \in Polled :
        \A id \in upstream[p[2]] :
            (id > Val(InitCursor(p)) /\ id <= Val(last_msg_id[p])) =>
                CopiesIn(Row(p[2], id), messages) >= 1

\* A kill after a cursor was committed past two stored messages.
C5_Witness ==
    /\ pc = "crashed"
    /\ last_msg_id[<<"a1", "c1">>] = 2
    /\ media_assets # {}

\* C6: no step of the poller lowers a committed cursor, or unsets it.
C6_CursorMonotone ==
    [][\A p \in Pairs :
          /\ Val(last_msg_id'[p]) >= Val(last_msg_id[p])
          /\ last_msg_id[p] # NULL => last_msg_id'[p] # NULL]_vars

\* A rate-limited fetch that found no message and started from an unset
\* cursor has committed.
C6_Witness ==
    /\ FetchReturned /\ nflood > 0
    /\ account = "a1" /\ channel = "c1"
    /\ upstream["c1"] = {}
    /\ last_msg_id[<<"a1", "c1">>] = 0

C8_NoMessageSkipped ==
    (/\ FetchReturned \/ (FetchRaised /\ error = "IntegrityError")
     /\ nflood > 0 /\ clean_start) =>
        \A id \in upstream[channel] :
            id > start_id => CopiesIn(Row(channel, id), messages) = 1

\* C9: no exception leaves a rate-limited fetch because of the rate limiting:
\* one that started with no row above its cursor is left only by the
\* failures of the remote source and the object storage.
C9_FloodNeverTerminal ==
    (pc = "finally" /\ nflood > 0 /\ clean_start) => error \in {"none", "Error"}

\* C10: when a run of poll_accounts has ended, by return or by exception,
\* every client it created is disconnected.
C10_ClientDisconnected ==
    pc \in {"returned", "raised"} =>
        \A a \in Accounts : client[a] \in {"none", "disconnected"}

\* C11: a failure of connect or fetch for one account ends only that
\* account's pass: when the run has ended, every active account with a
\* stored session has been given a client.  (No step writes is_active.)
C11_RemainingAccountsPolled ==
    pc \in {"returned", "raised"} =>
        \A a \in Accounts :
            (is_active(a) /\ session_cipher(a)) => client[a] # "none"

\* C12: a client exists for an account only if its stored ciphertext decrypts
\* under its stored key version, and the client's session is the decrypted
\* secret, never the ciphertext.
C12_SessionFromDecryptedSecret ==
    \A a \in Accounts :
        client[a] # "none" =>
            /\ decrypt_string_session(stored_cipher(a), kver(a)).ok
            /\ session[a] = decrypt_string_session(stored_cipher(a), kver(a)).value
            /\ session[a] # stored_cipher(a)

\* C13: every subscription made before a failure-free poll run is fetched by
\* that run for an active account of the subscriber.
C13_SubscribedChannelFetched ==
    \A sub \in last_pass.awaiting :
        \E a \in Accounts :
            /\ owner(a) = sub[1] /\ is_active(a)
            /\ <<a, sub[2]>> \in last_pass.fetched

\* C14: an exception of one iteration is caught at the loop: no job's task
\* ever ends and schedule_jobs never raises.
C14_JobSurvivesException ==
    /\ sched_pc # "raised"
    /\ \A j \in Jobs : job_pc[j] \notin {"raised", "cancelled"}

\* C15: only a job inside its with-block has a session and that session is
\* the only open one, so a job that sleeps or has failed holds none; every
\* iteration has a session of its own, which no other job has had.
C15_SessionPerIteration ==
    /\ \A j \in Jobs :
        /\ job_pc[j] # "running" => job_session[j] = 0
        /\ job_pc[j] = "running" => job_session[j] \in open_sessions
        /\ Cardinality(held[j]) = runs[j]
    /\ open_sessions = {job_session[j] : j \in {k \in Jobs : job_pc[k] = "running"}}
    /\ held["cluster_topics"] \cap held["compute_ranking"] = {}

\* A job sleeps after its second iteration and the other has failed.
C15_Witness ==
    /\ job_pc["cluster_topics"] = "sleep" /\ runs["cluster_topics"] = 2
    /\ job_pc["compute_ranking"] = "raised"

\* C16: whatever runs of cluster_topics and ingestion have happened, a
\* message is linked to at most one topic.
C16_AtMostOneTopic ==
    \A tm1, tm2 \in topic_messages : tm1[2] = tm2[2] => tm1[1] = tm2[1]

\* Two runs of cluster_topics have each linked one message.
C16_Witness ==
    /\ cl_pc = "idle"
    /\ \E t1, t2 \in topics :
        /\ t1.created_at < t2.created_at
        /\ <<t1.id, 1>> \in topic_messages
        /\ <<t2.id, 2>> \in topic_messages

\* C17: a step never changes or removes a topic or a link, and a new link
\* joins a message that had no link to a topic that did not exist.
C17_LinkedNeverReconsidered ==
    [][/\ topics \subseteq topics'
       /\ topic_messages \subseteq topic_messages'
       /\ \A tm \in topic_messages' \ topic_messages :
            /\ ~Linked(tm[2])
            /\ tm[1] \notin {t.id : t \in topics}]_vars

\* A message similar to the first member of an earlier topic, and still in
\* the window, has been given a topic of its own by a later run.
C17_Witness ==
    /\ cl_pc = "idle"
    /\ Cardinality(msgs) = 2
    /\ similar(MessageRow(2).text, MessageRow(1).text)
    /\ MessageRow(1).date >= now - ClusterWindow
    /\ \E t1, t2 \in topics :
        /\ t1.id # t2.id
        /\ <<t1.id, 1>> \in topic_messages
        /\ <<t2.id, 2>> \in topic_messages

\* Table ranking has at most one row for a key.
AtMostOnePerKey == \A r1, r2 \in ranking : key(r1) = key(r2) => r1 = r2

\* A run of compute_ranking that follows a committed run, with no message,
\* topic or link written in between.
RerunStep == rank_fresh /\ ranked_at' # ranked_at

\* C19 as stated: table ranking never has two rows for a key, and a second
\* run over the unchanged message set gives every row a later timestamp.
C19_UpsertAdvancesEveryRow ==
    /\ []AtMostOnePerKey
    /\ [][RerunStep =>
            \A r \in ranking :
                \E n \in ranking' : key(n) = key(r) /\ n.indexed > r.indexed]_vars

\* C19, amended: table ranking never has two rows for a key; a second run
\* over the unchanged message set that raises leaves every row as it was, and
\* one that commits gives a later timestamp to every row whose entity is
\* still inside the row's window and leaves the other rows as they were.
C19_UpsertAdvancesRankedRows ==
    /\ []AtMostOnePerKey
    /\ [][RerunStep =>
            IF rank_error' # "none"
            THEN ranking' = ranking
            ELSE \A r \in ranking :
                    IF Ranked(r)
                    THEN \E n \in ranking' :
                            key(n) = key(r) /\ n.indexed > r.indexed
                    ELSE r \in ranking']_vars

\* The only message, ranked while it was inside both windows, has left the
\* window of 24 hours before the second run: that row kept its timestamp and
\* the row of 7 days has a later one.
C19_Witness ==
    /\ Cardinality(msgs) = 1 /\ topics = {}
    /\ rank_fresh /\ rank_error = "none"
    /\ \E r1, r2 \in ranking :
        /\ key(r1) = <<"message", 1, "24h">> /\ r1.indexed = 0
        /\ key(r2) = <<"message", 1, "7d">> /\ r2.indexed > 0

\* C20: of two messages ranked by one run in one window with equal
\* popularity, the one with the later timestamp has the greater score.
C20_YoungerScoresHigher ==
    \A r1, r2 \in ranking :
        ( /\ r1.kind = "message" /\ r2.kind = "message"
          /\ r1.window = r2.window /\ r1.indexed = r2.indexed
          /\ popularity(MessageRow(r1.id)) = popularity(MessageRow(r2.id))
          /\ MessageRow(r1.id).date > MessageRow(r2.id).date )
        => Greater(r1.score, r2.score)

\* C21: a run of compute_ranking leaves the rows of every (topic, window)
\* without a member inside the window as they were: it adds none, so no row
\* of score zero, and changes none that an earlier run wrote.
C21_TopicWithoutMembersSkipped ==
    [][ranked_at' # ranked_at =>
        \A t \in topics : \A w \in Windows :
            topic_msgs(t, w) = {} =>
                {r \in ranking' : key(r) = <<"topic", t.id, w>>}
                    = {r \in ranking : key(r) = <<"topic", t.id, w>>}]_vars

\* The only member of topic 1 has left the window of 24 hours: the run at a
\* later clock has ranked the topic for 7 days and has left the row of 24
\* hours with the timestamp of the first run.
C21_Witness ==
    /\ rank_error = "none" /\ ranked_at > 0
    /\ \E t \in topics :
        /\ t.id = 1 /\ topic_msgs(t, "24h") = {} /\ topic_msgs(t, "7d") # {}
        /\ \E r1, r2 \in ranking :
            /\ key(r1) = <<"topic", 1, "24h">> /\ r1.indexed = 0
            /\ key(r2) = <<"topic", 1, "7d">> /\ r2.indexed = ranked_at

\* C22: decrypting the ciphertext with the key version, both as
\* encrypt_string_session returned them, gives the secret back; the version
\* returned is the one decrypt_string_session accepts.
C22_RoundTrip ==
    (vault.op = "decrypt" /\ <<vault.cipher, vault.kver>> = vault.issued) =>
        /\ vault.out.ok
        /\ vault.out.value = vault.secret
        /\ vault.issued[2] = 1

\* A secret of the greatest length has made the round trip.
C22_Witness ==
    /\ vault.op = "decrypt" /\ <<vault.cipher, vault.kver>> = vault.issued
    /\ Len(vault.secret) = MaxSecretLen
    /\ vault.secret[1] # vault.secret[MaxSecretLen]

C24_MyChannelsAsSubscribed ==
    /\ [](\A u \in Users :
            /\ {entity(r.id) : r \in my_channels(u)}
                   = {ch \in Channels : latest[u, ch] = "subscribe"}
            /\ \A r1, r2 \in my_channels(u) :
                   entity(r1.id) = entity(r2.id) => r1 = r2)
    /\ [][response' = <<"subscribe", "400">> =>
            (channel_rows' = channel_rows /\ subscriptions' = subscriptions)]_vars

\* C25: a successful get_top returns rows stored in table ranking at the time
\* of the call, of the requested kind and window only, at most 10, in
\* non-increasing order of score, each with its stored score, and all of
\* them when no more than 10 are stored.
C25_TopReturnsStoredRows ==
    [][(top' # top /\ top'.op = "get_top" /\ top'.status = 200) =>
        LET S == stored(ranking, top'.by, top'.window)
            out == top'.out
        IN  /\ Len(out) <= TopLimit
            /\ \A i \in 1..Len(out) :
                   \E r \in S : r.id = out[i].id /\ r.score = out[i].score
            /\ \A i, j \in 1..Len(out) :
                   i < j => ~Greater(out[j].score, out[i].score)
            /\ Cardinality(S) <= TopLimit =>
                   {out[i].id : i \in 1..Len(out)} = {r.id : r \in S}]_vars

\* C26: table users never holds two rows of one Telegram id; a valid callback
\* for an id whose row was found updates that row and adds none; a callback
\* whose hash does not verify is answered 400, changes no row and sets no
\* cookie, and a cookie is only set for a callback that verified.
C26_OneUserPerTelegramId ==
    /\ [](\A r1, r2 \in auth.users : r1.tg_id = r2.tg_id => r1 = r2)
    /\ [](\A w \in Workers :
            /\ auth.call[w].op = "rejected" <=>
                   (auth.call[w].status # NULL /\ ~auth.call[w].valid)
            /\ auth.call[w].op = "rejected" =>
                   (auth.call[w].status = 400 /\ auth.call[w].cookie = NULL)
            /\ auth.call[w].cookie # NULL => auth.call[w].valid)
    /\ [][\A w \in Workers :
            /\ auth'.call[w].op = "rejected" /\ auth'.call[w] # auth.call[w]
                   => auth'.users = auth.users
            /\ (auth.call[w].pc = "selected" /\ auth'.call[w].pc = "idle"
                    /\ auth.call[w].found # NULL)
                   => /\ {r.id : r \in auth'.users} = {r.id : r \in auth.users}
                      /\ \E r \in auth'.users :
                            /\ r.id = auth.call[w].found
                            /\ r.tg_id = auth.call[w].id
                            /\ r.username = auth.call[w].username
                            /\ auth'.call[w].cookie = r.id]_vars

\* One worker has updated the row of a known id and the other has rejected a
\* callback, with a row for every Telegram id.
C26_Witness ==
    /\ auth.call["w1"].op = "updated"
    /\ auth.call["w2"].op = "rejected"
    /\ Cardinality(auth.users) = MaxTgId
    /\ \E r \in auth.users : r.id = auth.call["w1"].cookie /\ r.username = 1

\* The clusters cs are a greedy grouping of the messages S: every message of
\* S is in one cluster, a member that is not the first is similar to the
\* first member of its cluster, and no member is similar to the first member
\* of a cluster opened earlier.
GreedyGrouping(cs, S) ==
    LET text(i, k) == MessageRow(cs[i][k]).text
        places == {<<i, k>> \in (1..Len(cs)) \X (1..Cardinality(S)) :
                      k <= Len(cs[i])}
    IN  /\ \A i \in 1..Len(cs) : cs[i] # <<>>
        /\ {cs[p[1]][p[2]] : p \in places} = S
        /\ Cardinality(places) = Cardinality(S)
        /\ \A p \in places :
            /\ p[2] > 1 => similar(text(p[1], p[2]), text(p[1], 1))
            /\ \A j \in 1..(p[1] - 1) : ~similar(text(p[1], p[2]), text(j, 1))

C28_TrendBounded ==
    LET age(r) == r.indexed - MessageRow(r.id).date
        scored == {r \in ranking : r.kind = "message"}
    IN  /\ rank_error = "none"
        /\ \A r \in scored :
            /\ Greater(trend(age(r)), <<0, 1>>)
            /\ ~Greater(trend(age(r)), <<1, 1>>)
            /\ ~Greater(r.score, <<popularity(MessageRow(r.id)), 1>>)
        /\ \A r1, r2 \in scored :
            age(r1) < age(r2) => Greater(trend(age(r1)), trend(age(r2)))

\* C29: a fetch that started with no row above its cursor, rate-limited at
\* most MaxFlood times, eventually returns with the cursor at the highest
\* published id, unless the remote source or the storage fails otherwise or
\* the process is killed.
C29_FetchTerminates ==
    (pc \in InFetch /\ clean_start) ~>
        \/ /\ pc = "fetched"
           /\ \A id \in upstream[channel] :
                id <= Val(last_msg_id[<<account, channel>>])
        \/ pc = "finally" /\ error = "Error"
        \/ pc = "crashed"

\* C30: while a pass of one job is in progress, the other job, at the start
\* of its task or with its sleep over, can start a pass of its own.
C30_JobsIndependent ==
    \A j, k \in Jobs :
        ( /\ j # k
          /\ job_pc[j] = "running"
          /\ job_pc[k] \in {"ready", "sleep"}
          /\ runs[k] < MaxRuns )
        => ENABLED EnterWith(k)

====
